---- MODULE Spec2Model ----
(***************************************************************************)
(* The scenario Runner of plugins/scenario/Runner.ts as a state machine:   *)
(* one Runner, one World, run() called sequentially.  Every await of run() *)
(* is one action.  JavaScript values are records tagged by their field t.  *)
(***************************************************************************)
EXTENDS Integers, Sequences, FiniteSets, TLC

\* ------------------------------------------------------------------ bounds
\* Most constraints a scenario declares.
MaxConstraints == 2
\* Longest array of solutions a constraint's solve returns.
MaxSolutions == 2
\* Number of sequential run() calls on the Runner.
MaxRuns == 2

\* ------------------------------------------------------- JavaScript values
Undefined == [t |-> "undefined"]
Null == [t |-> "null"]
NaN == [t |-> "NaN"]
Infinity == [t |-> "Infinity"]

RECURSIVE Gcd(_, _)
Gcd(a, b) == IF b = 0 THEN a ELSE Gcd(b, a % b)

\* A number: the fraction n/d in lowest terms (d = 1 for an integer).
Num(n) == [t |-> "number", n |-> n, d |-> 1]

\* a / b of JavaScript on the values the Runner divides: non-negative
\* integers, and anything that is not a number (an Error object) gives NaN.
Div(a, b) ==
  IF a.t = "number" /\ b.t = "number"
  THEN IF b.n = 0
       THEN (IF a.n = 0 THEN NaN ELSE Infinity)
       ELSE LET g == Gcd(a.n * b.d, a.d * b.n)
            IN  [t |-> "number", n |-> (a.n * b.d) \div g, d |-> (a.d * b.n) \div g]
  ELSE NaN

\* What `if (v)` and `v || w` take for true, on the values that occur.
Truthy(v) == v.t \notin {"undefined", "null", "NaN", "none"}

\* An Error object; a plain Error has no actual/expected.
PlainError(msg) ==
  [t |-> "error", cls |-> "Error", msg |-> msg, actual |-> Undefined, expected |-> Undefined]
AssertionError(actual, expected) ==
  [t |-> "error", cls |-> "AssertionError", msg |-> "property",
   actual |-> Num(actual), expected |-> Num(expected)]
\* err.stack
Stack(err) == [t |-> "string", stackOf |-> err]

\* ---------------------------------------------------------------- solutions
\* A solution is named by the constraint that returned it and its place in
\* what solve returned; `identity` is the Runner's own.
identity == [t |-> "solution", g |-> 0, j |-> 0]
Sol(g, j) == [t |-> "solution", g |-> g, j |-> j]
ArrayOf(items) == [t |-> "array", items |-> items]

asList(v) == IF v.t = "array" THEN v.items ELSE <<v>>

\* mapSolution giving no solution for null: return [] in place of [identity].
mapSolutionNullEmpty(s) == IF s.t \in {"null", "undefined"} THEN <<>> ELSE asList(s)

mapSolution(s) == IF s.t \in {"null", "undefined"} THEN <<identity>> ELSE asList(s)

\* combos without its `yield []`: the recursion bottoms out in nothing.
CombosNoEmptyYield(choices) == <<>>

\* combos with its two loops exchanged: for each combo of the rest, for each
\* option of the first list.
RECURSIVE EachOption(_, _)
EachOption(options, c) ==
  IF options = <<>> THEN <<>>
  ELSE <<(<<Head(options)>> \o c)>> \o EachOption(Tail(options), c)
RECURSIVE ForRest(_, _)
ForRest(options, rest) ==
  IF rest = <<>> THEN <<>>
  ELSE EachOption(options, Head(rest)) \o ForRest(options, Tail(rest))
RECURSIVE CombosInnerFirst(_)
CombosInnerFirst(choices) ==
  IF Len(choices) = 0 THEN << <<>> >>
  ELSE ForRest(choices[1], CombosInnerFirst(Tail(choices)))

\* combos without its loops: the first option of every list, once.
CombosFirstOnly(choices) ==
  IF \E p \in 1..Len(choices) : choices[p] = <<>> THEN <<>>
  ELSE << [p \in 1..Len(choices) |-> choices[p][1]] >>

\* The generator combos, as the list of what it yields, in order.
RECURSIVE combos(_)
RECURSIVE PrefixEach(_, _)
PrefixEach(option, rest) ==
  IF rest = <<>> THEN <<>>
  ELSE <<(<<option>> \o Head(rest))>> \o PrefixEach(option, Tail(rest))
RECURSIVE ForOptions(_, _)
ForOptions(options, rest) ==
  IF options = <<>> THEN <<>>
  ELSE PrefixEach(Head(options), rest) \o ForOptions(Tail(options), rest)
combos(choices) ==
  IF Len(choices) = 0 THEN << <<>> >>
  ELSE ForOptions(choices[1], combos(Tail(choices)))

\* ------------------------------------------------------------------- result
generateResult(totalGas, numSolutionSets_, err) ==
  LET diff == IF err.t = "error" /\ err.cls = "AssertionError" /\ err.actual # err.expected
              THEN [t |-> "diff", actual |-> err.actual, expected |-> err.expected]
              ELSE Null
  IN  [gasUsed |-> Div(totalGas, numSolutionSets_),
       numSolutionSets |-> numSolutionSets_,
       error |-> IF Truthy(err) THEN err ELSE Null,
       trace |-> IF Truthy(err) THEN Stack(err) ELSE Null,
       diff |-> diff]

\* The call of the catch block, generateResult(base, scenario, startTime,
\* numSolutionSets, e): five arguments to six parameters, so numSolutionSets
\* lands in totalGas, e in numSolutionSets, and err is left undefined.
FailureResult(n, e) == generateResult(Num(n), e, Undefined)

\* generateResult called with the gas and the count in each other's place.
SuccessResultSwapped(gas, n) == generateResult(Num(n), Num(gas), Undefined)

\* The call after the loop.
SuccessResult(gas, n) == generateResult(Num(gas), Num(n), Undefined)

\* -------------------------------------------------------------------- state
VARIABLES
  worldSnapshot,    \* Runner.worldSnapshot: Undefined, or the rolling handle
  world,            \* the World's observable state, a counter
  snaps,            \* the World's live snapshots, oldest first: [h, w]
  pc,               \* where run() is: "idle" between calls
  scenario,         \* the scenario run() was called with
  context,          \* `context`: the object the initializer returned (0: none)
  contextSnapshot,  \* `contextSnapshot`
  solutionChoices,  \* `solutionChoices`
  comboIdx,         \* how many combos the generator has yielded
  combo,            \* `combo`
  si,               \* the next solution of the combo to apply
  ci,               \* the next constraint to check
  ctx,              \* `ctx`: the combo's context object (0: none)
  heap,             \* the context objects: heap[o] is the counter object o holds
  cumulativeGas,    \* `cumulativeGas`
  numSolutionSets,  \* `numSolutionSets`
  pending,          \* the Result the catch block is returning, held by finally
  result,           \* how the last run() ended: returned a Result, or rejected
  runNo,            \* history: the run() calls so far
  hseq,             \* history: the handles the World issued in this run
  calls,            \* history: the collaborators' calls of this run, in order
  prevEnd,          \* history: how the previous run ended, kept until this
                    \* run's world reset is over
  propOk,           \* history: the property calls of this run that returned
  gasReturned,      \* history: sum of cumulativeGasUsed over the receipts returned
  lastGas,          \* history: the last receipt's cumulativeGasUsed
  worldAtCtx,       \* history: the world state when contextSnapshot was first taken
  thrown,           \* history: what a collaborator threw in this run
  prevReset,        \* history: the handle the previous run's world reset returned
  lastReset         \* history: the handle this run's world reset returned

runnerVars == <<worldSnapshot>>
worldVars == <<world, snaps, hseq>>
loopVars == <<comboIdx, combo, si, ci, ctx, heap>>
gasVars == <<cumulativeGas, numSolutionSets>>
histVars == <<prevEnd, propOk, gasReturned, lastGas, worldAtCtx, prevReset, lastReset>>
vars == <<worldSnapshot, world, snaps, pc, scenario, context, contextSnapshot,
          solutionChoices, comboIdx, combo, si, ci, ctx, heap, cumulativeGas,
          numSolutionSets, pending, result, runNo, hseq, calls, prevEnd, propOk,
          gasReturned, lastGas, worldAtCtx, thrown, prevReset, lastReset>>

None == [t |-> "none"]

\* --------------------------------------------------------------------- World
\* Handles are opaque to the Runner; the World never issues one twice.
Handle(r, k) == [t |-> "handle", run |-> r, k |-> k]
NewHandle == Handle(runNo, hseq + 1)

RECURSIVE SnapIndexFrom(_, _)
SnapIndexFrom(h, i) ==
  IF i = 0 THEN 0 ELSE IF snaps[i].h = h THEN i ELSE SnapIndexFrom(h, i - 1)
\* Where the live snapshot h is, 0 when h is not live.
SnapIndex(h) == SnapIndexFrom(h, Len(snaps))

\* world._snapshot(): captures the state, returns a new handle.
WorldSnapshot ==
  /\ snaps' = Append(snaps, [h |-> NewHandle, w |-> world])
  /\ world' = world
  /\ hseq' = hseq + 1

\* world._revertAndSnapshot(h): restores the state h captured, which drops h
\* and every later snapshot, then captures again.  A handle that is not live
\* restores nothing.
WorldRevertAndSnapshot(h) ==
  LET i == SnapIndex(h)
      w == IF i = 0 THEN world ELSE snaps[i].w
      kept == IF i = 0 THEN snaps ELSE SubSeq(snaps, 1, i - 1)
  IN  /\ world' = w
      /\ snaps' = Append(kept, [h |-> NewHandle, w |-> w])
      /\ hseq' = hseq + 1

\* ------------------------------------------------------------------ scenario
\* The scenarios run() is called with: constraints omitted, or 0..MaxConstraints
\* of them, named by their place.
Scenarios ==
  {[constraints |-> Undefined]}
    \cup {[constraints |-> ArrayOf([i \in 1..n |-> i])] : n \in 0..MaxConstraints}

\* const { constraints = [] } = scenario
Constraints(s) == IF s.constraints.t = "undefined" THEN <<>> ELSE s.constraints.items

\* What constraint i's solve may do: return null, nothing, one solution, an
\* array of 0..MaxSolutions solutions, or throw.
SolveOutcomes(i) ==
  {Null, Undefined, Sol(i, 1), PlainError("solve")}
    \cup {ArrayOf([j \in 1..k |-> Sol(i, j)]) : k \in 0..MaxSolutions}

\* cumulativeGasUsed of the receipts a property returns.
GasValues == {100, 300}

\* What transformer and property may do in one combo.
PropertyOutcomes ==
  {[k |-> "receipt", gas |-> g, err |-> None] : g \in GasValues}
    \cup {[k |-> "void", gas |-> 0, err |-> None]}
    \cup {[k |-> "throw", gas |-> 0, err |-> e] :
            e \in {PlainError("property"), AssertionError(1, 2), AssertionError(1, 1)}}
    \cup {[k |-> "transformerThrow", gas |-> 0, err |-> PlainError("transformer")]}

\* The loop run over combos(solutionChoices) alone, without the base group.
NoBaseSolutions == <<>>

\* const baseSolutions = [[identity]]
baseSolutions == << <<identity>> >>

\* The choice groups the generator is given: baseSolutions.concat(solutionChoices).
ComboChoices == baseSolutions \o solutionChoices

\* What the for loop iterates over: combos(baseSolutions.concat(solutionChoices)).
ComboList == combos(ComboChoices)

\* ---------------------------------------------------------------------- run
Returned(r) == [kind |-> "returned", value |-> r, error |-> None]
Rejected(e) == [kind |-> "rejected", value |-> None, error |-> e]
Thrown(at, n, e) == [t |-> "thrown", at |-> at, combo |-> n, err |-> e]
\* A collaborator's call: during combo n (0: outside the loop), with argument a,
\* returning r.
Call(op, n, a, r) == [op |-> op, combo |-> n, a |-> a, r |-> r]

Init ==
  /\ worldSnapshot = Undefined
  /\ world = 0
  /\ snaps = <<>>
  /\ pc = "idle"
  /\ scenario = [constraints |-> Undefined]
  /\ context = 0
  /\ contextSnapshot = Undefined
  /\ solutionChoices = <<>>
  /\ comboIdx = 0
  /\ combo = <<>>
  /\ si = 0
  /\ ci = 0
  /\ ctx = 0
  /\ heap = <<>>
  /\ cumulativeGas = 0
  /\ numSolutionSets = 0
  /\ pending = None
  /\ result = None
  /\ runNo = 0
  /\ hseq = 0
  /\ calls = <<>>
  /\ prevEnd = "none"
  /\ propOk = 0
  /\ gasReturned = 0
  /\ lastGas = 0
  /\ worldAtCtx = 0
  /\ thrown = None
  /\ prevReset = Undefined
  /\ lastReset = Undefined

\* How a run ended: it passed, it returned a failure, or it rejected.
EndOf(res, thr) ==
  IF res = None THEN "none"
  ELSE IF res.kind = "rejected" THEN "rejected"
  ELSE IF thr # None THEN "failed" ELSE "passed"

\* run(scenario) is called: lines 56-61.
Run ==
  /\ pc = "idle"
  /\ runNo < MaxRuns
  /\ \E s \in Scenarios : scenario' = s
  /\ pc' = "reset"
  /\ runNo' = runNo + 1
  /\ numSolutionSets' = 0
  /\ cumulativeGas' = 0
  /\ context' = 0
  /\ contextSnapshot' = Undefined
  /\ solutionChoices' = <<>>
  /\ comboIdx' = 0
  /\ combo' = <<>>
  /\ si' = 0
  /\ ci' = 0
  /\ ctx' = 0
  /\ heap' = <<>>
  /\ pending' = None
  /\ result' = None
  /\ hseq' = 0
  /\ calls' = <<>>
  /\ prevEnd' = EndOf(result, thrown)
  /\ propOk' = 0
  /\ gasReturned' = 0
  /\ lastGas' = 0
  /\ worldAtCtx' = 0
  /\ thrown' = None
  /\ prevReset' = lastReset
  /\ lastReset' = Undefined
  /\ UNCHANGED <<worldSnapshot, world, snaps>>

\* A Runner that never reverts: every run takes a snapshot of the world as it is.
NeverWorldSnapshot == FALSE

\* if (!this.worldSnapshot): the test of line 64 inverted.
NoWorldSnapshot == ~Truthy(worldSnapshot)

\* Line 64: if (this.worldSnapshot).
HasWorldSnapshot == Truthy(worldSnapshot)

\* Lines 63-68: reset the world if a snapshot exists and take a snapshot of it.
WorldReset ==
  /\ pc = "reset"
  /\ IF HasWorldSnapshot
     THEN /\ WorldRevertAndSnapshot(worldSnapshot)
          /\ calls' = Append(calls, Call("revertAndSnapshot", 0, worldSnapshot, NewHandle))
     ELSE /\ WorldSnapshot
          /\ calls' = Append(calls, Call("snapshot", 0, None, NewHandle))
  /\ worldSnapshot' = NewHandle
  /\ lastReset' = NewHandle
  /\ pc' = "initializer"
  /\ UNCHANGED <<scenario, context, contextSnapshot, solutionChoices, loopVars,
                 gasVars, pending, result, runNo, prevEnd, propOk, gasReturned,
                 lastGas, worldAtCtx, thrown, prevReset>>

\* Line 71: the initializer builds the context, acting on the world; it may throw.
Initializer ==
  /\ pc = "initializer"
  /\ calls' = Append(calls, Call("initializer", 0, None, None))
  /\ \/ /\ heap' = <<0>>
        /\ context' = 1
        /\ world' = world + 1
        /\ pc' = "contextSnapshot"
        /\ UNCHANGED <<result, thrown>>
     \/ /\ result' = Rejected(PlainError("initializer"))
        /\ thrown' = Thrown("initializer", 0, PlainError("initializer"))
        /\ pc' = "idle"
        /\ UNCHANGED <<heap, context, world>>
  /\ prevEnd' = "none"
  /\ UNCHANGED <<worldSnapshot, snaps, hseq, scenario, contextSnapshot,
                 solutionChoices, comboIdx, combo, si, ci, ctx, gasVars, pending,
                 runNo, propOk, gasReturned, lastGas, worldAtCtx, prevReset,
                 lastReset>>

\* Line 72: let contextSnapshot = await world._snapshot().
ContextSnapshot ==
  /\ pc = "contextSnapshot"
  /\ WorldSnapshot
  /\ contextSnapshot' = NewHandle
  /\ calls' = Append(calls, Call("snapshot", 0, None, NewHandle))
  /\ worldAtCtx' = world
  /\ pc' = "solve"
  /\ UNCHANGED <<worldSnapshot, scenario, context, solutionChoices, loopVars,
                 gasVars, pending, result, runNo, prevEnd, propOk, gasReturned,
                 lastGas, thrown, prevReset, lastReset>>

\* Every constraint solved twice over: constraints.map run a second time.
SolveCallsTwice(cs, out) ==
  [i \in 1..(2 * Len(cs)) |->
     Call("solve", 0, [c |-> cs[((i - 1) % Len(cs)) + 1], context |-> context],
          out[((i - 1) % Len(cs)) + 1])]

\* Line 78: constraints.map((c) => c.solve(scenario.requirements, context, world)),
\* the solve calls in constraint order, each with what it returned (or threw).
SolveCalls(cs, out) ==
  [i \in 1..Len(cs) |-> Call("solve", 0, [c |-> cs[i], context |-> context], out[i])]

\* Lines 77-82: every constraint's solve is called, in order; Promise.all
\* rejects with the first rejection in time, else gives the normalized lists.
Solve ==
  /\ pc = "solve"
  /\ LET cs == Constraints(scenario)
     IN  \E out \in [1..Len(cs) -> UNION {SolveOutcomes(i) : i \in 1..MaxConstraints}] :
           /\ \A i \in 1..Len(cs) : out[i] \in SolveOutcomes(cs[i])
           /\ calls' = calls \o SolveCalls(cs, out)
           /\ IF \E i \in 1..Len(cs) : out[i].t = "error"
              THEN /\ \E i \in 1..Len(cs) :
                        /\ out[i].t = "error"
                        /\ result' = Rejected(out[i])
                        /\ thrown' = Thrown("solve", 0, out[i])
                   /\ pc' = "idle"
                   /\ UNCHANGED <<solutionChoices, comboIdx, cumulativeGas>>
              ELSE /\ solutionChoices' = [i \in 1..Len(cs) |-> mapSolution(out[i])]
                   /\ cumulativeGas' = 0
                   /\ comboIdx' = 0
                   /\ pc' = "loop"
                   /\ UNCHANGED <<result, thrown>>
  /\ UNCHANGED <<worldSnapshot, worldVars, scenario, context, contextSnapshot,
                 combo, si, ci, ctx, heap, numSolutionSets, pending, runNo,
                 histVars>>

\* forker(ctx): the fork is taken of the previous combo's context.
ForkPrevious == IF ctx = 0 THEN context ELSE ctx

\* The object scenario.forker is called on: line 85, forker(context).
ForkSource == context

\* The loop without lines 92-94: the property runs unchecked.
AfterSolutionSkipsChecks(n, cmb, cs) == IF n <= Len(cmb) THEN "apply" ELSE "property"

\* Where a combo goes once solution number n - 1 of it is applied.
AfterSolution(n, cmb, cs) ==
  IF n <= Len(cmb) THEN "apply"
  ELSE IF Len(cs) > 0 THEN "check" ELSE "property"

\* Lines 83-85: the generator yields the next combo and the context is forked
\* (the forker may throw).  Objects of the previous combo are garbage by now.
Fork ==
  /\ pc = "loop"
  /\ comboIdx < Len(ComboList)
  /\ comboIdx' = comboIdx + 1
  /\ combo' = ComboList[comboIdx + 1]
  /\ calls' = Append(calls, Call("forker", comboIdx + 1, ForkSource, None))
  /\ \/ /\ heap' = <<heap[context], heap[ForkSource]>>
        /\ ctx' = 2
        /\ si' = 1
        /\ ci' = 1
        /\ pc' = AfterSolution(1, combo', Constraints(scenario))
        /\ UNCHANGED <<result, thrown>>
     \/ /\ result' = Rejected(PlainError("forker"))
        /\ thrown' = Thrown("forker", comboIdx + 1, PlainError("forker"))
        /\ pc' = "idle"
        /\ UNCHANGED <<heap, ctx, si, ci>>
  /\ UNCHANGED <<worldSnapshot, worldVars, scenario, context, contextSnapshot,
                 solutionChoices, gasVars, pending, runNo, histVars>>

\* Lines 88-90: ctx = (await solution(ctx, world)) || ctx.  identity returns
\* ctx; a constraint's solution acts on the world and either changes ctx in
\* place and returns nothing, or returns a new, changed object (the object it
\* replaces is garbage then, and the new one takes its place in the heap), or
\* throws.
ApplySolution ==
  /\ pc = "apply"
  /\ si <= Len(combo)
  /\ calls' = Append(calls, Call("solution", comboIdx, combo[si], None))
  /\ IF combo[si] = identity
     THEN /\ pc' = AfterSolution(si + 1, combo, Constraints(scenario))
          /\ si' = si + 1
          /\ UNCHANGED <<ctx, heap, world, result, thrown>>
     ELSE \/ /\ heap' = [heap EXCEPT ![ctx] = @ + 1]
             /\ world' = world + 1
             /\ pc' = AfterSolution(si + 1, combo, Constraints(scenario))
             /\ si' = si + 1
             /\ UNCHANGED <<ctx, result, thrown>>
          \/ /\ heap' = <<heap[context], heap[ctx] + 1>>
             /\ ctx' = 2
             /\ world' = world + 1
             /\ pc' = AfterSolution(si + 1, combo, Constraints(scenario))
             /\ si' = si + 1
             /\ UNCHANGED <<result, thrown>>
          \/ /\ result' = Rejected(PlainError("solution"))
             /\ thrown' = Thrown("solution", comboIdx, PlainError("solution"))
             /\ pc' = "idle"
             /\ UNCHANGED <<ctx, heap, world, si>>
  /\ UNCHANGED <<worldSnapshot, snaps, hseq, scenario, context, contextSnapshot,
                 solutionChoices, comboIdx, combo, ci, gasVars, pending, runNo,
                 histVars>>

\* Lines 92-94: every constraint's check, in order; a check may throw.
Check ==
  /\ pc = "check"
  /\ LET cs == Constraints(scenario)
     IN  /\ ci <= Len(cs)
         /\ calls' = Append(calls, Call("check", comboIdx, cs[ci], None))
         /\ \/ /\ ci' = ci + 1
               /\ pc' = IF ci + 1 <= Len(cs) THEN "check" ELSE "property"
               /\ UNCHANGED <<result, thrown>>
            \/ /\ result' = Rejected(PlainError("check"))
               /\ thrown' = Thrown("check", comboIdx, PlainError("check"))
               /\ pc' = "idle"
               /\ UNCHANGED ci
  /\ UNCHANGED <<worldSnapshot, worldVars, scenario, context, contextSnapshot,
                 solutionChoices, comboIdx, combo, si, ctx, heap, gasVars,
                 pending, runNo, histVars>>

\* What the catch block of line 103 leaves for after the finally block: the
\* Result it returns.
Catch(n, e) == FailureResult(n, e)

\* Lines 97-105: the try block and its catch.  The property acts on the world
\* and on ctx before it returns or throws; the transformer may throw first.
Property ==
  /\ pc = "property"
  /\ \E o \in PropertyOutcomes :
       /\ calls' = calls \o (IF o.k = "transformerThrow"
                             THEN <<Call("transformer", comboIdx, None, None)>>
                             ELSE <<Call("transformer", comboIdx, None, None),
                                    Call("property", comboIdx, None, None)>>)
       /\ IF o.k = "transformerThrow"
          THEN UNCHANGED <<world, heap>>
          ELSE /\ world' = world + 1
               /\ heap' = [heap EXCEPT ![ctx] = @ + 1]
       /\ IF o.k \in {"receipt", "void"}
          THEN /\ cumulativeGas' = cumulativeGas + o.gas
               /\ numSolutionSets' = numSolutionSets + 1
               /\ propOk' = propOk + 1
               /\ gasReturned' = gasReturned + o.gas
               /\ lastGas' = IF o.k = "receipt" THEN o.gas ELSE lastGas
               /\ UNCHANGED <<pending, thrown>>
          ELSE /\ pending' = Catch(numSolutionSets, o.err)
               /\ thrown' = Thrown(IF o.k = "throw" THEN "property" ELSE "transformer",
                                   comboIdx, o.err)
               /\ UNCHANGED <<gasVars, propOk, gasReturned, lastGas>>
  /\ pc' = "finally"
  /\ UNCHANGED <<worldSnapshot, snaps, hseq, scenario, context, contextSnapshot,
                 solutionChoices, comboIdx, combo, si, ci, ctx, result, runNo,
                 prevEnd, worldAtCtx, prevReset, lastReset>>

\* The finally block without its assignment: the handle revertAndSnapshot
\* returns is dropped and contextSnapshot stays the one of line 72.
FinallyKeepsHandle ==
  /\ pc = "finally"
  /\ WorldRevertAndSnapshot(contextSnapshot)
  /\ contextSnapshot' = contextSnapshot
  /\ calls' = Append(calls, Call("revertAndSnapshot", comboIdx, contextSnapshot, NewHandle))
  /\ IF pending # None
     THEN /\ result' = Returned(pending)
          /\ pc' = "idle"
     ELSE /\ pc' = "loop"
          /\ UNCHANGED result
  /\ UNCHANGED <<worldSnapshot, scenario, context, solutionChoices, loopVars,
                 gasVars, pending, runNo, prevEnd, propOk, gasReturned, lastGas,
                 worldAtCtx, thrown, prevReset, lastReset>>

\* The revert at the end of the try block instead of in a finally block: a
\* combo whose property threw returns without it.
FinallyOnSuccessOnly ==
  /\ pc = "finally"
  /\ IF pending # None
     THEN /\ result' = Returned(pending)
          /\ pc' = "idle"
          /\ UNCHANGED <<worldVars, contextSnapshot, calls>>
     ELSE /\ WorldRevertAndSnapshot(contextSnapshot)
          /\ contextSnapshot' = NewHandle
          /\ calls' = Append(calls, Call("revertAndSnapshot", comboIdx, contextSnapshot, NewHandle))
          /\ pc' = "loop"
          /\ UNCHANGED result
  /\ UNCHANGED <<worldSnapshot, scenario, context, solutionChoices, loopVars,
                 gasVars, pending, runNo, prevEnd, propOk, gasReturned, lastGas,
                 worldAtCtx, thrown, prevReset, lastReset>>

\* A catch block that does not return: the loop goes on to the next combo.
FinallyNoReturn ==
  /\ pc = "finally"
  /\ WorldRevertAndSnapshot(contextSnapshot)
  /\ contextSnapshot' = NewHandle
  /\ calls' = Append(calls, Call("revertAndSnapshot", comboIdx, contextSnapshot, NewHandle))
  /\ pc' = "loop"
  /\ UNCHANGED <<worldSnapshot, scenario, context, solutionChoices, loopVars,
                 gasVars, pending, result, runNo, prevEnd, propOk, gasReturned,
                 lastGas, worldAtCtx, thrown, prevReset, lastReset>>

\* Lines 106-108: contextSnapshot = await world._revertAndSnapshot(contextSnapshot),
\* then the pending return of the catch block, or the next iteration.
Finally ==
  /\ pc = "finally"
  /\ WorldRevertAndSnapshot(contextSnapshot)
  /\ contextSnapshot' = NewHandle
  /\ calls' = Append(calls, Call("revertAndSnapshot", comboIdx, contextSnapshot, NewHandle))
  /\ IF pending # None
     THEN /\ result' = Returned(pending)
          /\ pc' = "idle"
     ELSE /\ pc' = "loop"
          /\ UNCHANGED result
  /\ UNCHANGED <<worldSnapshot, scenario, context, solutionChoices, loopVars,
                 gasVars, pending, runNo, prevEnd, propOk, gasReturned, lastGas,
                 worldAtCtx, thrown, prevReset, lastReset>>

\* Line 111: every combo has passed.
Return ==
  /\ pc = "loop"
  /\ comboIdx >= Len(ComboList)
  /\ result' = Returned(SuccessResult(cumulativeGas, numSolutionSets))
  /\ pc' = "idle"
  /\ UNCHANGED <<worldSnapshot, worldVars, scenario, context, contextSnapshot,
                 solutionChoices, loopVars, gasVars, pending, runNo, calls,
                 histVars, thrown>>

Next ==
  \/ Run
  \/ WorldReset
  \/ Initializer
  \/ ContextSnapshot
  \/ Solve
  \/ Fork
  \/ ApplySolution
  \/ Check
  \/ Property
  \/ Finally
  \/ Return

Spec == Init /\ [][Next]_vars

\* ------------------------------------------------------ overlapping run()s
\* Two callers of run() on one Runner, each suspended at its awaits while the
\* other goes on.  The scenarios have no constraints and collaborators that
\* return, so a run has the one combo [identity].  Here pc, runNo,
\* contextSnapshot and calls are per caller; worldSnapshot and the World are
\* the one Runner's.
Callers == 1..2
concVars == <<worldSnapshot, world, snaps, hseq, pc, runNo, contextSnapshot, calls>>
restVars == <<scenario, context, solutionChoices, comboIdx, combo, si, ci, ctx,
              heap, cumulativeGas, numSolutionSets, pending, result, prevEnd,
              propOk, gasReturned, lastGas, worldAtCtx, thrown, prevReset,
              lastReset>>

InitConc ==
  /\ worldSnapshot = Undefined
  /\ world = 0
  /\ snaps = <<>>
  /\ hseq = 0
  /\ pc = [p \in Callers |-> "idle"]
  /\ runNo = [p \in Callers |-> 0]
  /\ contextSnapshot = [p \in Callers |-> Undefined]
  /\ calls = [p \in Callers |-> <<>>]
  /\ scenario = [constraints |-> Undefined]
  /\ context = 0
  /\ solutionChoices = <<>>
  /\ comboIdx = 0
  /\ combo = <<>>
  /\ si = 0
  /\ ci = 0
  /\ ctx = 0
  /\ heap = <<>>
  /\ cumulativeGas = 0
  /\ numSolutionSets = 0
  /\ pending = None
  /\ result = None
  /\ prevEnd = "none"
  /\ propOk = 0
  /\ gasReturned = 0
  /\ lastGas = 0
  /\ worldAtCtx = 0
  /\ thrown = None
  /\ prevReset = Undefined
  /\ lastReset = Undefined

\* Caller p calls run(scenario): lines 56-61.
RunBy(p) ==
  /\ pc[p] = "idle"
  /\ runNo[p] < MaxRuns
  /\ runNo' = [runNo EXCEPT ![p] = @ + 1]
  /\ contextSnapshot' = [contextSnapshot EXCEPT ![p] = Undefined]
  /\ calls' = [calls EXCEPT ![p] = <<>>]
  /\ pc' = [pc EXCEPT ![p] = "reset"]
  /\ UNCHANGED <<worldSnapshot, world, snaps, hseq, restVars>>

\* A Runner that stored the handle as the World's call returned it, before any
\* other caller could go on.
AssignedAtCall(h) == h

\* this.worldSnapshot while the World's call of line 65 or 67 is awaited: the
\* assignment is made only when run() is resumed, so the field is as it was.
WhileAwaited(h) == worldSnapshot

\* Lines 64-67 up to the await: the field is tested and read, the World is
\* called, and run() is suspended.
ResetCallBy(p) ==
  /\ pc[p] = "reset"
  /\ IF HasWorldSnapshot
     THEN /\ WorldRevertAndSnapshot(worldSnapshot)
          /\ calls' = [calls EXCEPT ![p] =
                         Append(@, Call("revertAndSnapshot", 0, worldSnapshot, NewHandle))]
     ELSE /\ WorldSnapshot
          /\ calls' = [calls EXCEPT ![p] = Append(@, Call("snapshot", 0, None, NewHandle))]
  /\ worldSnapshot' = WhileAwaited(NewHandle)
  /\ pc' = [pc EXCEPT ![p] = "resetAwait"]
  /\ UNCHANGED <<runNo, contextSnapshot, restVars>>

\* Lines 65 and 67 after the await: the handle the call returned is assigned.
ResetResumeBy(p) ==
  /\ pc[p] = "resetAwait"
  /\ worldSnapshot' = calls[p][1].r
  /\ pc' = [pc EXCEPT ![p] = "initializer"]
  /\ UNCHANGED <<world, snaps, hseq, runNo, contextSnapshot, calls, restVars>>

\* Line 71.
InitializerBy(p) ==
  /\ pc[p] = "initializer"
  /\ world' = world + 1
  /\ calls' = [calls EXCEPT ![p] = Append(@, Call("initializer", 0, None, None))]
  /\ pc' = [pc EXCEPT ![p] = "contextSnapshot"]
  /\ UNCHANGED <<worldSnapshot, snaps, hseq, runNo, contextSnapshot, restVars>>

\* Line 72.
ContextSnapshotBy(p) ==
  /\ pc[p] = "contextSnapshot"
  /\ WorldSnapshot
  /\ contextSnapshot' = [contextSnapshot EXCEPT ![p] = NewHandle]
  /\ calls' = [calls EXCEPT ![p] = Append(@, Call("snapshot", 0, None, NewHandle))]
  /\ pc' = [pc EXCEPT ![p] = "property"]
  /\ UNCHANGED <<worldSnapshot, runNo, restVars>>

\* Lines 84-101 of the one combo: forker, transformer and property, which acts
\* on the world.
PropertyBy(p) ==
  /\ pc[p] = "property"
  /\ world' = world + 1
  /\ calls' = [calls EXCEPT ![p] = Append(@, Call("property", 1, None, None))]
  /\ pc' = [pc EXCEPT ![p] = "finally"]
  /\ UNCHANGED <<worldSnapshot, snaps, hseq, runNo, contextSnapshot, restVars>>

\* Lines 106-108 and 111: the combo's revert, and run() returns.
FinallyBy(p) ==
  /\ pc[p] = "finally"
  /\ WorldRevertAndSnapshot(contextSnapshot[p])
  /\ contextSnapshot' = [contextSnapshot EXCEPT ![p] = NewHandle]
  /\ calls' = [calls EXCEPT ![p] =
                 Append(@, Call("revertAndSnapshot", 1, contextSnapshot[p], NewHandle))]
  /\ pc' = [pc EXCEPT ![p] = "idle"]
  /\ UNCHANGED <<worldSnapshot, runNo, restVars>>

NextConc ==
  \E p \in Callers :
    \/ RunBy(p)
    \/ ResetCallBy(p)
    \/ ResetResumeBy(p)
    \/ InitializerBy(p)
    \/ ContextSnapshotBy(p)
    \/ PropertyBy(p)
    \/ FinallyBy(p)

SpecConc == InitConc /\ [][NextConc]_vars

\* ------------------------------------------------------------------- claims
\* run() is over: it returned or rejected, and no other call has begun.
RunEnded == pc = "idle" /\ runNo > 0
\* The calls of this run that are calls of op.
CallsOf(op) == {i \in DOMAIN calls : calls[i].op = op}

\* C1: run() never throws.  Whatever a constraint's solve, a solution, a
\* constraint's check or the property throws, run() returns a Result (it does
\* not reject) and that Result's error field is populated.
C1_RunNeverThrows ==
  (RunEnded /\ thrown # None /\ thrown.at \in {"solve", "solution", "check", "property"})
    => /\ result.kind = "returned"
       /\ result.value.error # Null

\* C2: when a combo's property throws e, the Result has error = e, trace =
\* e's stack, and numSolutionSets = the number of combos whose property
\* completed before the failing one.
C2_PropertyFailureResult ==
  (RunEnded /\ thrown # None /\ thrown.at = "property")
    => /\ result.kind = "returned"
       /\ result.value.error = thrown.err
       /\ result.value.trace = Stack(thrown.err)
       /\ result.value.numSolutionSets = Num(propOk)

\* C3: diff extraction.  When the property fails with an assertion error whose
\* actual and expected differ, the Result's diff is {actual, expected}; when it
\* fails with a plain error, or with actual equal to expected, diff is null.
C3_DiffExtraction ==
  (RunEnded /\ thrown # None /\ thrown.at = "property")
    => /\ result.kind = "returned"
       /\ result.value.diff =
            IF thrown.err.cls = "AssertionError" /\ thrown.err.actual # thrown.err.expected
            THEN [t |-> "diff", actual |-> thrown.err.actual, expected |-> thrown.err.expected]
            ELSE Null

\* C4: revert guarantee.  When a combo's property (or its transformer) throws,
\* then by the time run() has returned its Result the world is back in the
\* state contextSnapshot captured, the state after the initializer, and
\* contextSnapshot has been taken anew: the last call of the run is the
\* revertAndSnapshot, and a live snapshot of that state is what it returned.
C4_RevertGuarantee ==
  (RunEnded /\ thrown # None /\ thrown.at \in {"property", "transformer"})
    => /\ result.kind = "returned"
       /\ world = worldAtCtx
       /\ calls[Len(calls)].op = "revertAndSnapshot"
       /\ calls[Len(calls)].combo = thrown.combo
       /\ calls[Len(calls)].r = contextSnapshot
       /\ SnapIndex(contextSnapshot) > 0
       /\ snaps[SnapIndex(contextSnapshot)].w = worldAtCtx

\* C4's case: the property of a second combo threw after solutions and the
\* property itself had changed the world, and run() has returned.
C4_Witness ==
  /\ RunEnded
  /\ thrown # None
  /\ thrown.at = "property"
  /\ thrown.combo = 2
  /\ \E i \in CallsOf("solution") : calls[i].combo = 2 /\ calls[i].a # identity
  /\ world = worldAtCtx

\* C5: cleanup on every exit path.  Once a combo has been started (its context
\* forked), the world is back at the contextSnapshot state when the run is
\* over, however that combo ended: property passed or threw, a check failed,
\* or a solution threw.
C5_CleanupEveryExit ==
  (RunEnded /\ CallsOf("forker") # {} /\ ~(thrown # None /\ thrown.at = "forker"))
    => world = worldAtCtx

\* C6: short-circuit.  Once a combo's check or property (or transformer) has
\* thrown, the combo that threw is the last one: no call of the run (forker,
\* solution, check, transformer, property, revert) belongs to a later combo,
\* and the revert of the throwing combo, made only when the try block was
\* entered, is the last call of the run.  With three or more combos and the second one's property throwing,
\* the property has been invoked exactly twice.
C6_ShortCircuit ==
  (thrown # None /\ thrown.at \in {"check", "property", "transformer"})
    => /\ pc \in {"finally", "idle"}
       /\ comboIdx = thrown.combo
       /\ \A i \in DOMAIN calls : calls[i].combo <= thrown.combo
       /\ \A i \in DOMAIN calls :
            (calls[i].op = "revertAndSnapshot" /\ calls[i].combo = thrown.combo)
              => (i = Len(calls) /\ thrown.at # "check")
       /\ (thrown.at = "property" /\ thrown.combo = 2)
            => Cardinality(CallsOf("property")) = 2

\* C6's case: three or more combos, the second one's property threw, the run
\* is over.
C6_Witness ==
  /\ RunEnded
  /\ Len(ComboList) >= 3
  /\ thrown # None
  /\ thrown.at = "property"
  /\ thrown.combo = 2
  /\ Cardinality(CallsOf("property")) = 2

\* C7: mean gas.  When run() returns after every combo's property returned,
\* the Result has error = null, numSolutionSets = the number of property calls
\* that returned (with or without a receipt), and gasUsed times that number is
\* the sum of cumulativeGasUsed over the receipts returned; two combos with
\* receipts summing to 400 give gasUsed = 200.
C7_MeanGas ==
  (RunEnded /\ result.kind = "returned" /\ thrown = None)
    => /\ result.value.error = Null
       /\ result.value.numSolutionSets = Num(propOk)
       /\ propOk = Cardinality(CallsOf("property"))
       /\ propOk >= 1 =>
            /\ result.value.gasUsed.t = "number"
            /\ result.value.gasUsed.n * propOk = gasReturned * result.value.gasUsed.d
       /\ (propOk = 2 /\ gasReturned = 400) => result.value.gasUsed = Num(200)

\* C7's case: two combos passed, with receipts of 100 and 300.
C7_Witness ==
  /\ RunEnded
  /\ result.kind = "returned"
  /\ thrown = None
  /\ propOk = 2
  /\ gasReturned = 400
  /\ lastGas = 300
  /\ result.value.gasUsed = Num(200)

\* C7's other case: a property that returned no receipt counts as a solution
\* set and adds no gas.
C7_WitnessVoid ==
  /\ RunEnded
  /\ result.kind = "returned"
  /\ thrown = None
  /\ propOk = 2
  /\ gasReturned = 300
  /\ result.value.gasUsed = Num(150)

\* C8: rolling snapshot.  In every run, once the world reset is over: the
\* first call of the run is snapshot() in the Runner's first run and
\* revertAndSnapshot(h) in every later one, h being the handle the previous
\* run's world reset returned; and worldSnapshot holds the handle this call
\* returned, until the next run.
C8_RollingSnapshot ==
  (runNo >= 1 /\ pc # "reset")
    => /\ Len(calls) >= 1
       /\ calls[1].op = (IF runNo = 1 THEN "snapshot" ELSE "revertAndSnapshot")
       /\ runNo > 1 => (prevReset.t = "handle" /\ calls[1].a = prevReset)
       /\ calls[1].r = lastReset
       /\ lastReset.t = "handle"
       /\ worldSnapshot = lastReset

\* C8's case: the world reset of a second run, after a first run that failed.
C8_Witness ==
  /\ runNo = 2
  /\ pc = "initializer"
  /\ prevEnd \in {"failed", "rejected"}
  /\ calls[1].op = "revertAndSnapshot"
  /\ calls[1].a = prevReset

\* C9: isolation.  Every forker call is made on the object the initializer
\* returned; the context a combo starts with is another object that holds
\* what the initializer's context held, whatever the solutions and the
\* property of the combos before did to theirs; and the initializer's
\* context is never changed by the combo loop.
C9_Isolation ==
  /\ \A i \in CallsOf("forker") : calls[i].a = context
  /\ context # 0 => heap[context] = 0
  /\ (pc = "apply" /\ si = 1) => (ctx # context /\ heap[ctx] = heap[context])

\* C9's case: a second combo starts after the first one's solution and
\* property changed the first one's context.
C9_Witness ==
  /\ pc = "apply"
  /\ si = 1
  /\ comboIdx = 2
  /\ \E i \in CallsOf("solution") : calls[i].combo = 1 /\ calls[i].a # identity
  /\ \E i \in CallsOf("property") : calls[i].combo = 1
  /\ heap[ctx] = 0

\* C10: identity-first.  For a scenario with no constraints (none declared, or
\* the field omitted) the generator yields exactly one combo, the identity
\* alone; the context the transformer and property get is the fork, unchanged;
\* the property is invoked at most once, and exactly once with
\* numSolutionSets = 1 when the run passes.
C10_IdentityFirst ==
  (Len(Constraints(scenario)) = 0 /\ runNo >= 1)
    => /\ pc \in {"loop", "apply", "property", "finally"} => ComboList = << <<identity>> >>
       /\ comboIdx <= 1
       /\ \A i \in CallsOf("solution") : calls[i].a = identity
       /\ pc = "property" => (combo = <<identity>> /\ ctx = 2 /\ heap[ctx] = heap[context])
       /\ Cardinality(CallsOf("property")) <= 1
       /\ (RunEnded /\ result.kind = "returned" /\ thrown = None)
            => /\ Cardinality(CallsOf("property")) = 1
               /\ Cardinality(CallsOf("forker")) = 1
               /\ result.value.numSolutionSets = Num(1)

\* C10's case: a run of a scenario whose constraints are omitted has passed.
C10_Witness ==
  /\ RunEnded
  /\ scenario.constraints = Undefined
  /\ result.kind = "returned"
  /\ thrown = None
  /\ result.value.numSolutionSets = Num(1)

\* The number of combinations of the choice lists ch[from], ch[from + 1], ...
RECURSIVE ProdLens(_, _)
ProdLens(ch, from) ==
  IF from > Len(ch) THEN 1 ELSE Len(ch[from]) * ProdLens(ch, from + 1)

\* The choice of list p in combination number k (from 1) of the choice lists
\* ch, counted in lexicographic order of the choice indices, the first list's
\* index the most significant.
LexChoice(ch, k, p) == ch[p][(((k - 1) \div ProdLens(ch, p + 1)) % Len(ch[p])) + 1]

\* combos(ch) is the Cartesian product of ch in lexicographic order: one
\* combination per tuple of choice indices, none twice, none when a list is
\* empty.
IsLexProduct(ch) ==
  LET out == combos(ch)
  IN  /\ Len(out) = ProdLens(ch, 1)
      /\ \A k \in 1..Len(out) :
           /\ Len(out[k]) = Len(ch)
           /\ \A p \in 1..Len(ch) : out[k][p] = LexChoice(ch, k, p)

\* The choice groups of the run and their tails, down to the empty list.
ChoiceLists == {SubSeq(ComboChoices, n, Len(ComboChoices)) : n \in 1..(Len(ComboChoices) + 1)}

\* C11: combo ordering.  Where line 83 calls combos, for the choice lists of
\* the run and for every tail of them, combos yields the Cartesian product,
\* each combination once with its choices in the order of the lists, in
\* lexicographic order of the choice indices; [[A],[X,Y]] gives [A,X] then
\* [A,Y]; the empty list of lists gives one empty combination; a list with an
\* empty choice list gives nothing.
C11_ComboOrdering ==
  (pc = "loop" /\ comboIdx = 0) =>
    /\ \A ch \in ChoiceLists : IsLexProduct(ch)
    /\ combos(<<>>) = << <<>> >>
    /\ combos(<< <<identity>>, <<Sol(1, 1), Sol(1, 2)>> >>)
         = << <<identity, Sol(1, 1)>>, <<identity, Sol(1, 2)>> >>
    /\ \A ch \in ChoiceLists : (\E p \in 1..Len(ch) : ch[p] = <<>>) => combos(ch) = <<>>

\* C11's case: two constraints returned two solutions each, and the loop runs
\* over the four combinations in lexicographic order.
C11_Witness ==
  /\ pc = "loop"
  /\ comboIdx = 0
  /\ ComboChoices = << <<identity>>, <<Sol(1, 1), Sol(1, 2)>>, <<Sol(2, 1), Sol(2, 2)>> >>
  /\ ComboList = << <<identity, Sol(1, 1), Sol(2, 1)>>, <<identity, Sol(1, 1), Sol(2, 2)>>,
                    <<identity, Sol(1, 2), Sol(2, 1)>>, <<identity, Sol(1, 2), Sol(2, 2)>> >>


\* C12: a run never passes with zero solution sets.  Whatever the solves
\* return, a Result returned at the end of the combo loop has numSolutionSets
\* >= 1 and a gasUsed that is a number.
C12_NeverPassesEmpty ==
  (RunEnded /\ result.kind = "returned" /\ thrown = None)
    => /\ result.value.numSolutionSets.t = "number"
       /\ result.value.numSolutionSets.n >= 1
       /\ result.value.gasUsed.t = "number"


\* The solutions of the first combo, when every choice group has one: the
\* identity, then each constraint's first solution.
FirstCombo == <<identity>> \o [i \in 1..Len(solutionChoices) |-> solutionChoices[i][1]]

\* C13 as stated: the first combo of every run applies no solution but the
\* identity, so the first property call gets the fork unchanged.
C13_EmptyTrialFirst ==
  (pc = "property" /\ comboIdx = 1)
    => /\ \A i \in CallsOf("solution") : calls[i].a = identity
       /\ heap[ctx] = heap[context]

\* C13, amended: the first combo of every run is the identity followed by the
\* first solution of each constraint's normalized list, in constraint order;
\* these are the solutions applied before the first property call, which gets
\* the fork unchanged when each of them is the identity (no constraints, or
\* every solve returned null or nothing).
C13_FirstComboIsFirstChoices ==
  /\ (comboIdx = 1 /\ pc \in {"apply", "check", "property", "finally"}) => combo = FirstCombo
  /\ (pc = "property" /\ comboIdx = 1)
       => /\ [i \in 1..Len(combo) |-> calls[Len(calls) - Len(Constraints(scenario)) - Len(combo) + i].a]
               = FirstCombo
          /\ (\A i \in 1..Len(combo) : combo[i] = identity) => heap[ctx] = heap[context]

\* C13's case: the first combo of a run is at its property call after a
\* constraint's solution was applied.
C13_Witness ==
  /\ pc = "property"
  /\ comboIdx = 1
  /\ \E i \in CallsOf("solution") : calls[i].a # identity
  /\ heap[ctx] # heap[context]


\* C14: clean base state.  In every run the initializer is called on the world
\* state of the Runner's first snapshot (the state the world is constructed
\* in, 0), and worldSnapshot is a live snapshot of that state, whatever the
\* runs before did to the world and however they ended.
C14_CleanBaseState ==
  pc = "initializer"
    => /\ world = 0
       /\ SnapIndex(worldSnapshot) > 0
       /\ snaps[SnapIndex(worldSnapshot)].w = 0

\* C14's case: the initializer of a second run is about to be called, after a
\* first run whose initializer changed the world and whose property threw.
C14_Witness ==
  /\ pc = "initializer"
  /\ runNo = 2
  /\ prevEnd = "failed"
  /\ world = 0


\* The solve step of this run is over.
SolveDone ==
  \/ pc \in {"loop", "apply", "check", "property", "finally"}
  \/ RunEnded /\ ~(thrown # None /\ thrown.at = "initializer")

\* The calls of a run before its solve calls: world reset, initializer,
\* context snapshot.
BeforeSolve == 3

\* C15: solve once per run.  Once the solve step is over, the calls that
\* follow the initializer's and the snapshot that gives contextSnapshot are
\* one solve call per constraint, in constraint order, each with the context
\* the initializer returned; the call after them, if any, is the first
\* combo's forker and no later call is a solve; before the solve step no
\* solve call was made; and a run that is over with nothing thrown called each
\* constraint's solve exactly once, before every forker call.
C15_SolveOncePerRun ==
  LET cs == Constraints(scenario)
      m == Len(cs)
  IN  /\ IF SolveDone
         THEN /\ Len(calls) >= BeforeSolve + m
              /\ calls[2].op = "initializer"
              /\ calls[3].op = "snapshot"
              /\ context # 0
              /\ \A i \in 1..m :
                   calls[BeforeSolve + i]
                     = Call("solve", 0, [c |-> cs[i], context |-> context],
                            calls[BeforeSolve + i].r)
              /\ Len(calls) > BeforeSolve + m =>
                   /\ calls[BeforeSolve + m + 1].op = "forker"
                   /\ calls[Len(calls)].op # "solve"
         ELSE /\ Len(calls) <= BeforeSolve
              /\ \A i \in DOMAIN calls : calls[i].op # "solve"
      /\ (RunEnded /\ thrown = None) =>
           /\ \A c \in 1..m :
                Cardinality({i \in CallsOf("solve") : calls[i].a.c = cs[c]}) = 1
           /\ \A i \in CallsOf("forker") : i > BeforeSolve + m

\* C15's case: the second combo of a scenario with two constraints is at its
\* property call.
C15_Witness ==
  /\ pc = "property"
  /\ comboIdx = 2
  /\ Len(Constraints(scenario)) = 2
  /\ Cardinality(CallsOf("solve")) = 2


\* What a call is, for the order of a combo's calls: its collaborator and,
\* for a solution or a check, which one.
Key(op, solution, constraint) == [op |-> op, solution |-> solution, constraint |-> constraint]
CallKey(c) ==
  Key(c.op, IF c.op = "solution" THEN c.a ELSE None, IF c.op = "check" THEN c.a ELSE 0)
\* The calls of combo n, in the order they were made.
CallsIn(n) ==
  LET s == SelectSeq(calls, LAMBDA c : c.combo = n)
  IN  [i \in 1..Len(s) |-> CallKey(s[i])]
\* The calls of a whole combo made of the solutions cmb, for constraints cs.
Protocol(cmb, cs) ==
  <<Key("forker", None, 0)>>
    \o [i \in 1..Len(cmb) |-> Key("solution", cmb[i], 0)]
    \o [i \in 1..Len(cs) |-> Key("check", None, cs[i])]
    \o <<Key("transformer", None, 0), Key("property", None, 0),
         Key("revertAndSnapshot", None, 0)>>
\* Call number j of it.
ProtocolCall(j, cmb, cs) ==
  IF j = 1 THEN Key("forker", None, 0)
  ELSE IF j <= 1 + Len(cmb) THEN Key("solution", cmb[j - 1], 0)
  ELSE IF j <= 1 + Len(cmb) + Len(cs) THEN Key("check", None, cs[j - 1 - Len(cmb)])
  ELSE IF j = 2 + Len(cmb) + Len(cs) THEN Key("transformer", None, 0)
  ELSE IF j = 3 + Len(cmb) + Len(cs) THEN Key("property", None, 0)
  ELSE Key("revertAndSnapshot", None, 0)
IsPrefix(s, t) == Len(s) <= Len(t) /\ s = SubSeq(t, 1, Len(s))
\* The protocol cut short by a transformer that threw: no property call.
TransformerThrew(p) == SubSeq(p, 1, Len(p) - 2) \o <<p[Len(p)]>>

\* Where the calls of combo n are in the log of a run: after the calls made
\* before the loop and the calls of the combos before it.
FirstOf(n, p) == BeforeSolve + Len(Constraints(scenario)) + (n - 1) * Len(p) + 1
LastOf(n, p) ==
  IF FirstOf(n, p) + Len(p) - 1 <= Len(calls) THEN FirstOf(n, p) + Len(p) - 1 ELSE Len(calls)
\* The calls of combo n as the log has them at that place.
CallsAt(n, p) == [i \in 1..(LastOf(n, p) - FirstOf(n, p) + 1) |-> CallKey(calls[FirstOf(n, p) + i - 1])]
\* Combo n, of the solutions cmb, keeps to the protocol: its calls are at
\* their place, and are the protocol's, in order, as far as the combo went.
KeepsProtocol(n, cmb) ==
  LET p == Protocol(cmb, Constraints(scenario))
      at == CallsAt(n, p)
  IN  /\ FirstOf(n, p) <= Len(calls)
      /\ \A i \in FirstOf(n, p)..LastOf(n, p) : calls[i].combo = n
      /\ \/ IsPrefix(at, p)
         \/ at = TransformerThrew(p)
      /\ (n < comboIdx \/ pc = "loop") => at = p
      /\ n = comboIdx => LastOf(n, p) = Len(calls)

\* C16: per-combo protocol order.  The calls of the combo that is running
\* are, in order: forker, each solution of the combo in combo order, each
\* constraint's check in constraint order, transformer, property,
\* revertAndSnapshot (a prefix of that while the combo runs or when it was left
\* by a throw; without the property when the transformer threw), and they
\* follow all the calls of the combos before it; a combo that is over and was
\* not left by a throw made all of them; a solution or a check that threw is
\* the last call of its run, so no property follows a failed check; and in a
\* run that is over with nothing thrown the calls of the loop are the protocol
\* of the first combo, then of the second, and so on to the last, call by call.
C16_ProtocolOrder ==
  /\ comboIdx >= 1 => KeepsProtocol(comboIdx, combo)
  /\ (comboIdx = 0 /\ calls # <<>>) => calls[Len(calls)].combo = 0
  /\ (thrown # None /\ thrown.at \in {"solution", "check"}) =>
       /\ calls[Len(calls)].op = thrown.at
       /\ calls[Len(calls)].combo = thrown.combo
  /\ (RunEnded /\ thrown = None) =>
       LET all == ComboList
           cs == Constraints(scenario)
           base == BeforeSolve + Len(cs)
           len == Len(ComboChoices) + Len(cs) + 4
       IN  /\ \A i \in 1..base : i <= Len(calls) => calls[i].combo = 0
           /\ \A i \in (base + 1)..Len(calls) :
                LET n == ((i - base - 1) \div len) + 1
                    j == ((i - base - 1) % len) + 1
                IN  /\ calls[i].combo = n
                    /\ n <= comboIdx
                    /\ CallKey(calls[i]) = ProtocolCall(j, all[n], cs)
           /\ Len(calls) = base + comboIdx * len
           /\ comboIdx = Len(all)

\* C16's case: the second of the combos of two constraints is over and the loop
\* is about to go on.
C16_Witness ==
  /\ pc = "loop"
  /\ comboIdx = 2
  /\ Len(ComboList) > 2
  /\ Len(Constraints(scenario)) = 2
  /\ Len(CallsIn(2)) = 9


\* Caller p is suspended in its world reset: the World was called, the handle
\* is not assigned yet.
InReset(p) == pc[p] = "resetAwait"
\* Caller p is between its context snapshot and its combo's revert.
UsingWorld(p) == pc[p] \in {"property", "finally"}

\* C17: overlapping run() calls race on worldSnapshot.  Whenever two callers
\* are both suspended in their world reset, neither saw the handle the World
\* returned to the other: the caller that came second tested and read the
\* field as the first left it, so it called snapshot() again or passed a handle
\* that the first caller's call had already replaced, and the World answered
\* the two with different handles, of which the field will keep one.
C17_ResetRace ==
  \A p, q \in Callers :
    (p # q /\ InReset(p) /\ InReset(q)) =>
      /\ calls[p][1].a # calls[q][1].r
      /\ calls[p][1].r # calls[q][1].r
      /\ worldSnapshot # calls[p][1].r

\* C17's case: both callers are suspended in their reset, having passed the one
\* handle worldSnapshot held to revertAndSnapshot.
C17_Witness ==
  /\ InReset(1)
  /\ InReset(2)
  /\ calls[1][1].op = "revertAndSnapshot"
  /\ calls[2][1].op = "revertAndSnapshot"
  /\ calls[1][1].a = calls[2][1].a

\* The race on a fresh Runner: both callers called snapshot().
C17_BothSnapshot ==
  /\ InReset(1)
  /\ InReset(2)
  /\ calls[1][1].op = "snapshot"
  /\ calls[2][1].op = "snapshot"

\* The other caller's reset or revert took away the snapshot caller 1 is going
\* to revert to, and the world its initializer built.
C17_Discarded ==
  /\ UsingWorld(1)
  /\ SnapIndex(contextSnapshot[1]) = 0


\* Every solve of the run has returned.
SolveReturned == SolveDone /\ ~(thrown # None /\ thrown.at = "solve")
\* What solve number i of the run returned.
SolveResult(i) == calls[3 + i].r
\* The list a solve result stands for: [identity] for null (and for nothing
\* returned), a bare solution alone, an array's elements as they are.
Normalized(r) ==
  CASE r.t \in {"null", "undefined"} -> <<identity>>
    [] r.t = "solution" -> <<r>>
    [] r.t = "array" -> r.items

\* C18: solution normalization.  Once every solve has returned, the choice
\* groups given to combos are [[identity]] followed, in constraint order, by
\* the normalized list of what each constraint's solve returned: [identity]
\* for null, the one solution for a bare solution, the same elements in the
\* same order for an array, none for an empty array.
C18_Normalization ==
  SolveReturned =>
    /\ \A i \in 1..Len(Constraints(scenario)) :
         /\ calls[3 + i].op = "solve"
         /\ calls[3 + i].a.c = Constraints(scenario)[i]
    /\ ComboChoices =
         << <<identity>> >>
           \o [i \in 1..Len(Constraints(scenario)) |-> Normalized(SolveResult(i))]

\* C18's case: the first constraint's solve returned null, the second's an
\* array of two solutions, and a combo of the two is at its revert.
C18_Witness ==
  /\ pc = "finally"
  /\ Len(Constraints(scenario)) = 2
  /\ SolveResult(1) = Null
  /\ SolveResult(2) = ArrayOf(<<Sol(2, 1), Sol(2, 2)>>)
  /\ combo = <<identity, identity, Sol(2, 2)>>

\* The other cases of C18: a bare solution, and an empty array.
C18_BareAndEmpty ==
  /\ SolveReturned
  /\ Len(Constraints(scenario)) = 2
  /\ SolveResult(1) = Sol(1, 1)
  /\ SolveResult(2) = ArrayOf(<<>>)
  /\ ComboChoices = << <<identity>>, <<Sol(1, 1)>>, <<>> >>


\* The reverts of the combos.
ComboReverts == {i \in CallsOf("revertAndSnapshot") : calls[i].combo >= 1}
\* The same, in order.
ComboRevertCalls ==
  SelectSeq(calls, LAMBDA c : c.op = "revertAndSnapshot" /\ c.combo >= 1)
\* The handles of the world tier in this run: the one the reset reverted to
\* and the one it returned.
WorldTier == {calls[1].a, calls[1].r}

\* C19: snapshot handles are single-use.  In every run of a sequence of runs:
\* the world reset is the first call and reverts to the handle the previous
\* run's reset returned (or takes a snapshot when there was none), and
\* worldSnapshot holds what it returned; the snapshot of line 72 and every
\* combo's revert return a handle that is none of the world tier's, which
\* contextSnapshot holds then; and in a run that is over every combo's revert
\* was passed the handle returned by the context tier's call before it, no two
\* revertAndSnapshot calls were passed the same handle, no handle of one tier
\* is a handle of the other, and no other snapshot or revert was made.
C19_SingleUseHandles ==
  /\ calls # <<>> =>
       /\ calls[1].combo = 0
       /\ calls[1].op = (IF runNo > 1 THEN "revertAndSnapshot" ELSE "snapshot")
       /\ calls[1].a = (IF runNo > 1 THEN prevReset ELSE None)
       /\ calls[1].r \notin {prevReset, Undefined}
       /\ worldSnapshot = calls[1].r
  /\ Len(calls) >= 3 =>
       /\ calls[3].op = "snapshot"
       /\ calls[3].r \notin WorldTier
       /\ Len(calls) = 3 => contextSnapshot = calls[3].r
  /\ (calls # <<>> /\ calls[Len(calls)].op = "revertAndSnapshot" /\ comboIdx >= 1) =>
       /\ calls[Len(calls)].combo = comboIdx
       /\ contextSnapshot = calls[Len(calls)].r
       /\ calls[Len(calls)].a \notin WorldTier \cup {calls[Len(calls)].r}
       /\ calls[Len(calls)].r \notin WorldTier
       /\ comboIdx = 1 => calls[Len(calls)].a = calls[3].r
  /\ RunEnded =>
       LET reverts == ComboRevertCalls
           passed == {reverts[k].a : k \in DOMAIN reverts}
           returned == {reverts[k].r : k \in DOMAIN reverts}
       IN  /\ \A k \in DOMAIN reverts :
                reverts[k].a = (IF k = 1 THEN calls[3].r ELSE reverts[k - 1].r)
           /\ Cardinality(passed) = Len(reverts)
           /\ Cardinality(returned) = Len(reverts)
           /\ (passed \cup returned) \cap WorldTier = {}
           /\ Len(calls) >= 3 => calls[3].r \notin returned
           /\ (calls # <<>> /\ calls[1].op = "revertAndSnapshot") => calls[1].a \notin passed
           /\ reverts # <<>> => contextSnapshot = reverts[Len(reverts)].r
           /\ \A i \in DOMAIN calls :
                /\ calls[i].op = "snapshot" => i \in {1, 3}
                /\ calls[i].op = "revertAndSnapshot" => (i = 1 \/ calls[i].combo >= 1)

\* C19's case: a second run, which reverted the world to the first run's
\* handle, is over after four combos, each of which reverted to the handle
\* the call before it in the context tier returned.
C19_Witness ==
  /\ runNo = 2
  /\ RunEnded
  /\ thrown = None
  /\ comboIdx = 4
  /\ calls[1].op = "revertAndSnapshot"
  /\ Cardinality(ComboReverts) = 4
  /\ Cardinality({calls[i].a : i \in CallsOf("revertAndSnapshot")}) = 5


\* The solutions applied in combo k, in the order they were applied.
SolutionsIn(k) ==
  LET s == SelectSeq(calls, LAMBDA c : c.combo = k /\ c.op = "solution")
  IN  [i \in 1..Len(s) |-> s[i].a]
\* The combinations of one solution per constraint are that many.
NumCombinations == ProdLens(ComboChoices, 1)
\* The run explored every combination: the property was called once in each of
\* NumCombinations combos, each combo applied, after identity, one solution of
\* each constraint's list, no two combos applied the same ones, forker and the
\* combos' revertAndSnapshot were called as many times, and the Result
\* returned counts as many solution sets.
Explored ==
  /\ Cardinality(CallsOf("property")) = NumCombinations
  /\ \A k \in 1..NumCombinations :
       /\ Cardinality({i \in CallsOf("property") : calls[i].combo = k}) = 1
       /\ Len(SolutionsIn(k)) = Len(ComboChoices)
       /\ \A p \in 1..Len(ComboChoices) :
            \E j \in 1..Len(ComboChoices[p]) : SolutionsIn(k)[p] = ComboChoices[p][j]
       /\ \A l \in 1..NumCombinations : k # l => SolutionsIn(k) # SolutionsIn(l)
  /\ Cardinality(CallsOf("forker")) = NumCombinations
  /\ Cardinality(ComboReverts) = NumCombinations
  /\ result.kind = "returned"
  /\ result.value.numSolutionSets = Num(NumCombinations)

\* C20 as stated: a run in which no solve, solution, check or property threw
\* explored every combination.
C20_Exhaustive ==
  (RunEnded /\ ~(thrown # None /\ thrown.at \in {"solve", "solution", "check", "property"}))
    => Explored

\* C20, amended: exhaustive exploration.  A run in which no collaborator threw
\* (initializer, solve, forker, solution, check, transformer, property)
\* explored every combination.
C20_ExhaustiveNoThrow == (RunEnded /\ thrown = None) => Explored

\* C20's case: a run of two constraints with two solutions each has ended
\* with nothing thrown, after four combos.
C20_Witness ==
  /\ RunEnded
  /\ thrown = None
  /\ NumCombinations = 4
  /\ Len(ComboChoices) = 3
  /\ Cardinality(CallsOf("property")) = 4

====
